---- MODULE Spec2Model ----
(***************************************************************************)
(* Options::Options of the AIDL compiler front end (options.cpp): the      *)
(* getopt_long scan of the flags, the legacy/modern resolution of the      *)
(* positional arguments and the cross-field checks.                        *)
(*                                                                         *)
(* Strings are sequences of one-character strings, so that Trim, EndsWith  *)
(* and string::replace are computed and not assumed.  argv is modelled     *)
(* after getopt_long's permutation: the option tokens in their original    *)
(* order, followed by the non-option tokens in their original order.  The  *)
(* scan never looks at a non-option token, so the non-option tail is drawn *)
(* when getopt_long returns -1.                                            *)
(***************************************************************************)
EXTENDS Integers, Sequences, FiniteSets, TLC

VARIABLES default_lang, argv, optind, pc, this, lang_option_found, branch, cerr,
          exit_status

vars == <<default_lang, argv, optind, pc, this, lang_option_found, branch, cerr,
          exit_status>>

(* ------------------------------ bounds --------------------------------- *)

MaxFlags == 3

MaxPos == 3

(* ------------------------------ strings -------------------------------- *)

EmptyStr == <<>>

AidlExt == <<".", "a", "i", "d", "l">>

JavaExt == <<".", "j", "a", "v", "a">>

A_aidl == <<"A">> \o AidlExt

B_aidl == <<"B">> \o AidlExt

sigs_txt == <<"s", ".", "t", "x", "t">>

HeaderDir == <<"H">>

A_java == <<"A">> \o JavaExt

B_java == <<"B">> \o JavaExt

outdir == <<"o", "u", "t">>

hdrdir == <<"h", "d", "r">>

incdir == <<"i", "n", "c">>

dep_d == <<"d", "e", "p", ".", "d">>

lang_java == <<"j", "a", "v", "a">>

lang_cpp == <<"c", "p", "p">>

lang_rust == <<"r", "u", "s", "t">>

IsSpace(ch) == ch = " "

RECURSIVE TrimLeft(_)
TrimLeft(s) ==
    IF s # <<>> /\ IsSpace(Head(s)) THEN TrimLeft(Tail(s)) ELSE s

RECURSIVE TrimRight(_)
TrimRight(s) ==
    IF s # <<>> /\ IsSpace(s[Len(s)]) THEN TrimRight(SubSeq(s, 1, Len(s) - 1)) ELSE s

Trim(s) == TrimRight(TrimLeft(s))

EndsWith(s, suffix) ==
    /\ Len(s) >= Len(suffix)
    /\ SubSeq(s, Len(s) - Len(suffix) + 1, Len(s)) = suffix

\* std::string::replace(length() - strlen(".aidl"), strlen(".aidl"), ".java"):
\* the position is a size_t, so for a string shorter than ".aidl" it wraps
\* above length() and replace throws std::out_of_range.
ReplaceThrows(s) == Len(s) < Len(AidlExt)

ReplaceAidlByJava(s) == SubSeq(s, 1, Len(s) - Len(AidlExt)) \o JavaExt

(* ------------------------------ enums ---------------------------------- *)

Languages == {"JAVA", "CPP"}

Tasks == {"UNSPECIFIED", "COMPILE", "PREPROCESS", "DUMPAPI"}

InitialTask == "UNSPECIFIED"

(* ------------------------------ argv ----------------------------------- *)

\* An element of argv: c is what getopt_long makes of it, text its argument
\* (option tokens) or the token itself (non-option tokens).
Opt(c, arg) == [c |-> c, text |-> arg]

Operand(s) == [c |-> "operand", text |-> s]

\* The option tokens the vectors are built from; c is the value getopt_long
\* returns for the token ("?" for a token it does not recognise).
FlagTokens ==
    { Opt("l", lang_java), Opt("l", <<" ">> \o lang_cpp), Opt("l", lang_rust),
      Opt("s", EmptyStr), Opt("u", EmptyStr),
      Opt("d", <<" ">> \o dep_d \o <<" ">>), Opt("o", outdir), Opt("h", hdrdir),
      Opt("a", EmptyStr), Opt("e", EmptyStr), Opt("?", EmptyStr) }

\* Tokens of the same shape as the ones above, applied by the same cases.
OtherFlagTokens ==
    { Opt("I", incdir), Opt("p", A_aidl), Opt("n", EmptyStr), Opt("t", EmptyStr),
      Opt("b", EmptyStr), Opt("c", EmptyStr) }

PosTokens == {A_aidl, B_aidl, sigs_txt, HeaderDir}

SeqsUpTo(S, n) == UNION { [1..k -> S] : k \in 0..n }

\* Flag vectors: every sequence of FlagTokens up to MaxFlags, and the
\* vectors holding a single one of the remaining tokens.
FlagVectors == SeqsUpTo(FlagTokens, MaxFlags) \cup { <<f>> : f \in OtherFlagTokens }

PosVectors == SeqsUpTo({ Operand(s) : s \in PosTokens }, MaxPos)

IsOperand(tok) == tok.c = "operand"

Texts(toks) == [i \in 1..Len(toks) |-> toks[i].text]

\* The option tokens of a vector, and the texts of its non-option tokens.
OptionsOf(av) == SelectSeq(av, LAMBDA tok : ~IsOperand(tok))

OperandsOf(av) == Texts(SelectSeq(av, IsOperand))

(* ------------------------------ state ---------------------------------- *)

\* The members of Options as the constructor finds them.
NewOptions(lang) ==
    [ language_ |-> lang,
      task_ |-> InitialTask,
      import_paths_ |-> <<>>,
      preprocessed_files_ |-> <<>>,
      dependency_file_ |-> EmptyStr,
      output_dir_ |-> EmptyStr,
      output_header_dir_ |-> EmptyStr,
      dependency_file_ninja_ |-> FALSE,
      gen_traces_ |-> FALSE,
      auto_dep_file_ |-> FALSE,
      fail_on_parcelable_ |-> FALSE,
      gen_transaction_names_ |-> FALSE,
      input_files_ |-> <<>>,
      output_file_ |-> EmptyStr,
      error_message_ |-> <<>> ]

Init ==
    /\ default_lang \in Languages
    /\ argv \in FlagVectors
    /\ optind = 1
    /\ pc = "scan"
    /\ this = NewOptions(default_lang)
    /\ lang_option_found = FALSE
    /\ branch = "none"
    /\ cerr = <<>>
    /\ exit_status = -1

(* ------------------------------ usage ---------------------------------- *)

\* The paragraphs of the usage text, in the order GetUsage writes them.
GetUsage(o) ==
    <<"usage:", "--lang={java|cpp} [OPTION]... INPUT...",
      "--preprocess OUTPUT INPUT...", "--dumpapi OUTPUT INPUT...">>
    \o (IF o.language_ = "JAVA" THEN <<"[OPTION]... INPUT [OUTPUT]">>
        ELSE IF o.language_ = "CPP" THEN <<"[OPTION]... INPUT HEADER_DIR OUTPUT">>
        ELSE <<>>)
    \o <<"OPTION:", "INPUT:", "OUTPUT:", "HEADER_DIR:">>

(* --------------------------- the flag scan ----------------------------- *)

\* error_message_ << text << endl
Err(o, text) == [o EXCEPT !.error_message_ = Append(@, text)]

\* getopt_long has an option to return: the token at optind.
HasOption == pc = "scan" /\ optind <= Len(argv)

optc == argv[optind].c

optarg == argv[optind].text

LangNotSupported == "aidl-cpp does not support --lang."

\* ApplyLang keeping a task that an earlier flag has set.
ApplyLangKeepTask(o, arg) ==
    IF o.language_ = "CPP"
    THEN Err(o, LangNotSupported)
    ELSE LET lang == Trim(arg)
             task == IF o.task_ = "UNSPECIFIED" THEN "COMPILE" ELSE o.task_
         IN  IF lang = lang_java
             THEN [o EXCEPT !.language_ = "JAVA", !.task_ = task]
             ELSE IF lang = lang_cpp
             THEN [o EXCEPT !.language_ = "CPP", !.task_ = task]
             ELSE Err(o, "Unsupported language")

\* ApplyLang reporting an unsupported language when language_ is CPP.
ApplyLangWrongError(o, arg) ==
    LET lang == Trim(arg) IN
    IF o.language_ = "CPP"
    THEN Err(o, "Unsupported language")
    ELSE IF lang = lang_java
    THEN [o EXCEPT !.language_ = "JAVA", !.task_ = "COMPILE"]
    ELSE IF lang = lang_cpp
    THEN [o EXCEPT !.language_ = "CPP", !.task_ = "COMPILE"]
    ELSE Err(o, "Unsupported language")

\* ApplyLang without the test of language_ == CPP.
ApplyLangNoCppTest(o, arg) ==
    LET lang == Trim(arg) IN
    IF lang = lang_java
    THEN [o EXCEPT !.language_ = "JAVA", !.task_ = "COMPILE"]
    ELSE IF lang = lang_cpp
    THEN [o EXCEPT !.language_ = "CPP", !.task_ = "COMPILE"]
    ELSE Err(o, "Unsupported language")

\* ApplyLang with the CPP test made after the value is applied.
ApplyLangValueFirst(o, arg) ==
    LET lang == Trim(arg) IN
    IF lang = lang_java
    THEN [o EXCEPT !.language_ = "JAVA", !.task_ = "COMPILE"]
    ELSE IF o.language_ = "CPP"
    THEN Err(o, LangNotSupported)
    ELSE IF lang = lang_cpp
    THEN [o EXCEPT !.language_ = "CPP", !.task_ = "COMPILE"]
    ELSE Err(o, "Unsupported language")

\* case 'l'
ApplyLang(o, arg) ==
    IF o.language_ = "CPP"
    THEN Err(o, LangNotSupported)
    ELSE LET lang == Trim(arg) IN
         IF lang = lang_java
         THEN [o EXCEPT !.language_ = "JAVA", !.task_ = "COMPILE"]
         ELSE IF lang = lang_cpp
         THEN [o EXCEPT !.language_ = "CPP", !.task_ = "COMPILE"]
         ELSE Err(o, "Unsupported language")

LangOption ==
    /\ HasOption
    /\ optc = "l"
    /\ this' = ApplyLang(this, optarg)
    /\ lang_option_found' = (IF this.language_ = "CPP" THEN lang_option_found ELSE TRUE)
    /\ pc' = (IF this'.error_message_ # <<>> THEN "done" ELSE "scan")
    /\ optind' = optind + 1
    /\ UNCHANGED <<default_lang, argv, branch, cerr, exit_status>>

\* ApplyTask without the guard.
ApplyTaskUnguarded(o, c) ==
    [o EXCEPT !.task_ = (IF c = "s" THEN "PREPROCESS" ELSE "DUMPAPI")]

\* ApplyTask with the guard turned round.
ApplyTaskWhenUnspecified(o, c) ==
    IF o.task_ = "UNSPECIFIED"
    THEN [o EXCEPT !.task_ = (IF c = "s" THEN "PREPROCESS" ELSE "DUMPAPI")]
    ELSE o

\* case 's' and case 'u'
ApplyTask(o, c) ==
    IF o.task_ # "UNSPECIFIED"
    THEN [o EXCEPT !.task_ = (IF c = "s" THEN "PREPROCESS" ELSE "DUMPAPI")]
    ELSE o

TaskOption ==
    /\ HasOption
    /\ optc \in {"s", "u"}
    /\ this' = ApplyTask(this, optc)
    /\ optind' = optind + 1
    /\ UNCHANGED <<default_lang, argv, pc, lang_option_found, branch, cerr, exit_status>>

\* case 'I', 'p', 'd', 'o', 'h'
ApplyValue(o, c, arg) ==
    CASE c = "I" -> [o EXCEPT !.import_paths_ = Append(@, Trim(arg))]
      [] c = "p" -> [o EXCEPT !.preprocessed_files_ = Append(@, Trim(arg))]
      [] c = "d" -> [o EXCEPT !.dependency_file_ = Trim(arg)]
      [] c = "o" -> [o EXCEPT !.output_dir_ = Trim(arg)]
      [] c = "h" -> [o EXCEPT !.output_header_dir_ = Trim(arg)]

ValueOption ==
    /\ HasOption
    /\ optc \in {"I", "p", "d", "o", "h"}
    /\ this' = ApplyValue(this, optc, optarg)
    /\ optind' = optind + 1
    /\ UNCHANGED <<default_lang, argv, pc, lang_option_found, branch, cerr, exit_status>>

\* case 'n', 't', 'a', 'b', 'c'
ApplySwitch(o, c) ==
    CASE c = "n" -> [o EXCEPT !.dependency_file_ninja_ = TRUE]
      [] c = "t" -> [o EXCEPT !.gen_traces_ = TRUE]
      [] c = "a" -> [o EXCEPT !.auto_dep_file_ = TRUE]
      [] c = "b" -> [o EXCEPT !.fail_on_parcelable_ = TRUE]
      [] c = "c" -> [o EXCEPT !.gen_transaction_names_ = TRUE]

SwitchOption ==
    /\ HasOption
    /\ optc \in {"n", "t", "a", "b", "c"}
    /\ this' = ApplySwitch(this, optc)
    /\ optind' = optind + 1
    /\ UNCHANGED <<default_lang, argv, pc, lang_option_found, branch, cerr, exit_status>>

\* HelpOption without the call of exit.
HelpOptionNoExit ==
    /\ HasOption
    /\ optc = "e"
    /\ cerr' = cerr \o GetUsage(this)
    /\ optind' = optind + 1
    /\ UNCHANGED <<default_lang, argv, pc, this, lang_option_found, branch, exit_status>>

\* case 'e': std::cerr << GetUsage(); exit(0);
HelpOption ==
    /\ HasOption
    /\ optc = "e"
    /\ cerr' = cerr \o GetUsage(this)
    /\ exit_status' = 0
    /\ pc' = "exited"
    /\ optind' = optind + 1
    /\ UNCHANGED <<default_lang, argv, this, lang_option_found, branch>>

\* InvalidOption without the return.
InvalidOptionNoReturn ==
    /\ HasOption
    /\ optc \notin {"l", "s", "u", "I", "p", "d", "o", "h", "n", "t", "a", "b", "c", "e"}
    /\ this' = Err(this, "Invalid argument")
    /\ optind' = optind + 1
    /\ UNCHANGED <<default_lang, argv, pc, lang_option_found, branch, cerr, exit_status>>

\* default:
InvalidOption ==
    /\ HasOption
    /\ optc \notin {"l", "s", "u", "I", "p", "d", "o", "h", "n", "t", "a", "b", "c", "e"}
    /\ this' = Err(this, "Invalid argument")
    /\ pc' = "done"
    /\ optind' = optind + 1
    /\ UNCHANGED <<default_lang, argv, lang_option_found, branch, cerr, exit_status>>

\* c == -1: no more options.  optind is left on the first non-option token.
NoMoreOptions ==
    /\ pc = "scan"
    /\ optind > Len(argv)
    /\ \E tail \in PosVectors : argv' = argv \o tail
    /\ pc' = "positional"
    /\ UNCHANGED <<default_lang, optind, this, lang_option_found, branch, cerr, exit_status>>

(* ----------------------- positional arguments -------------------------- *)

\* argc - optind
Remaining(av, ind) == Len(av) - ind + 1

Step(o, ind, next) == [o |-> o, optind |-> ind, pc |-> next]

\* the legacy arguments format, language_ == JAVA
LegacyJava(o, av, ind) ==
    LET input == av[ind].text
        o1 == [o EXCEPT !.input_files_ = Append(@, input)]
    IN  IF Remaining(av, ind + 1) >= 1
        THEN Step([o1 EXCEPT !.output_file_ = av[ind + 1].text], ind + 2, "legacy_rest")
        ELSE IF ReplaceThrows(Head(o1.input_files_))
        THEN Step([o1 EXCEPT !.output_file_ = Head(o1.input_files_)], ind + 1, "terminated")
        ELSE Step([o1 EXCEPT !.output_file_ = ReplaceAidlByJava(Head(o1.input_files_))],
                  ind + 1, "legacy_rest")

\* the legacy arguments format, language_ == CPP
LegacyCpp(o, av, ind) ==
    LET input == av[ind].text
        o1 == [o EXCEPT !.input_files_ = Append(@, input)]
    IN  IF Remaining(av, ind + 1) < 2
        THEN Step(Err(o1, "No HEADER_DIR or OUTPUT."), ind + 1, "done")
        ELSE Step([o1 EXCEPT !.output_header_dir_ = av[ind + 1].text,
                             !.output_file_ = av[ind + 2].text], ind + 3, "legacy_rest")

\* the legacy arguments format
Legacy(o, av, ind) ==
    IF Remaining(av, ind) <= 0
    THEN Step(Err(o, "No input file"), ind, "done")
    ELSE LET r == IF o.language_ = "JAVA" THEN LegacyJava(o, av, ind)
                  ELSE IF o.language_ = "CPP" THEN LegacyCpp(o, av, ind)
                  ELSE Step(o, ind, "legacy_rest")
         IN  IF r.pc # "legacy_rest" THEN r
             ELSE IF Remaining(av, r.optind) > 0
             THEN Step(Err(r.o, "Too many arguments"), r.optind, "done")
             ELSE Step(r.o, r.optind, "done")

\* Modern asking for one token where two are needed.
ModernOneSuffices(o, av, ind) ==
    IF o.task_ = "COMPILE"
    THEN IF Remaining(av, ind) < 1
         THEN Step(Err(o, "No input file."), ind, "done")
         ELSE Step([o EXCEPT !.input_files_ = @ \o Texts(SubSeq(av, ind, Len(av)))],
                   Len(av) + 1, "validate")
    ELSE IF Remaining(av, ind) < 1
         THEN Step(Err(o, "Insufficient arguments"), ind, "done")
         ELSE Step([o EXCEPT !.output_file_ = av[ind].text,
                             !.input_files_ = @ \o Texts(SubSeq(av, ind + 1, Len(av)))],
                   Len(av) + 1, "validate")

\* Modern with the first input file of a COMPILE skipped.
ModernSkipFirst(o, av, ind) ==
    IF o.task_ = "COMPILE"
    THEN IF Remaining(av, ind) < 1
         THEN Step(Err(o, "No input file."), ind, "done")
         ELSE Step([o EXCEPT !.input_files_ = @ \o Texts(SubSeq(av, ind + 1, Len(av)))],
                   Len(av) + 1, "validate")
    ELSE IF Remaining(av, ind) < 2
         THEN Step(Err(o, "Insufficient arguments"), ind, "done")
         ELSE Step([o EXCEPT !.output_file_ = av[ind].text,
                             !.input_files_ = @ \o Texts(SubSeq(av, ind + 1, Len(av)))],
                   Len(av) + 1, "validate")

\* the new arguments format
Modern(o, av, ind) ==
    IF o.task_ = "COMPILE"
    THEN IF Remaining(av, ind) < 1
         THEN Step(Err(o, "No input file."), ind, "done")
         ELSE Step([o EXCEPT !.input_files_ = @ \o Texts(SubSeq(av, ind, Len(av)))],
                   Len(av) + 1, "validate")
    ELSE IF Remaining(av, ind) < 2
         THEN Step(Err(o, "Insufficient arguments"), ind, "done")
         ELSE Step([o EXCEPT !.output_file_ = av[ind].text,
                             !.input_files_ = @ \o Texts(SubSeq(av, ind + 1, Len(av)))],
                   Len(av) + 1, "validate")

\* IsLegacy without the test of task_.
IsLegacyWithoutTask(o, found) == ~found

IsLegacy(o, found) == ~found /\ o.task_ = "COMPILE"

Positional ==
    /\ pc = "positional"
    /\ LET r == IF IsLegacy(this, lang_option_found)
                THEN Legacy(this, argv, optind)
                ELSE Modern(this, argv, optind)
       IN  /\ this' = r.o
           /\ optind' = r.optind
           /\ pc' = r.pc
    /\ branch' = (IF IsLegacy(this, lang_option_found) THEN "legacy" ELSE "modern")
    /\ UNCHANGED <<default_lang, argv, lang_option_found, cerr, exit_status>>

(* ------------------- filter out invalid combinations ------------------- *)

BadInputs(o) == { i \in 1..Len(o.input_files_) : ~EndsWith(o.input_files_[i], AidlExt) }

\* CheckExtension looking at the first input file only.
CheckExtensionFirstOnly(o) ==
    IF 1 \in BadInputs(o) THEN Err(o, "Expected .aidl file for input") ELSE o

CheckExtension(o) ==
    IF BadInputs(o) # {} THEN Err(o, "Expected .aidl file for input") ELSE o

\* CheckCpp without the test of output_header_dir_.
CheckCppNoHeader(o) ==
    IF o.language_ = "CPP" /\ o.task_ = "COMPILE" /\ o.output_dir_ = EmptyStr
    THEN Err(o, "Output directory is not set. Set with --out.")
    ELSE o

CheckCpp(o) ==
    IF o.language_ = "CPP" /\ o.task_ = "COMPILE"
    THEN IF o.output_dir_ = EmptyStr
         THEN Err(o, "Output directory is not set. Set with --out.")
         ELSE IF o.output_header_dir_ = EmptyStr
         THEN Err(o, "Header output directory is not set. Set with --header_out.")
         ELSE o
    ELSE o

CheckJava(o) ==
    IF o.language_ = "JAVA" /\ o.task_ = "COMPILE"
    THEN IF o.output_dir_ = EmptyStr
         THEN Err(o, "Output directory is not set. Set with --out.")
         ELSE IF o.output_header_dir_ # EmptyStr
         THEN Err(o, "Header output directory is set, which does not make sense for Java.")
         ELSE o
    ELSE o

OutputFileConflict == "Multiple AIDL files can't be compiled to a single output file"

DepFileConflict == "-d or --dep doesn't work when compiling multiple AIDL files."

\* CheckCardinality without the test of dependency_file_.
CheckCardinalityNoDep(o) ==
    IF o.task_ = "COMPILE" /\ o.output_file_ # EmptyStr /\ Len(o.input_files_) > 1
    THEN Err(o, OutputFileConflict)
    ELSE o

CheckCardinality(o) ==
    IF o.task_ = "COMPILE"
    THEN IF o.output_file_ # EmptyStr /\ Len(o.input_files_) > 1
         THEN Err(o, OutputFileConflict)
         ELSE IF o.dependency_file_ # EmptyStr /\ Len(o.input_files_) > 1
         THEN Err(o, DepFileConflict)
         ELSE o
    ELSE o

\* Each check returns from the constructor when it writes an error.
Failed(o) == o.error_message_ # <<>>

\* Checked with the output directory checks made before the extension check.
CheckedDirsFirst(o) ==
    LET o1 == CheckCpp(o)
        o2 == IF Failed(o1) THEN o1 ELSE CheckJava(o1)
        o3 == IF Failed(o2) THEN o2 ELSE CheckExtension(o2)
    IN  IF Failed(o3) THEN o3 ELSE CheckCardinality(o3)

Checked(o) ==
    LET o1 == CheckExtension(o)
        o2 == IF Failed(o1) THEN o1 ELSE CheckCpp(o1)
        o3 == IF Failed(o2) THEN o2 ELSE CheckJava(o2)
    IN  IF Failed(o3) THEN o3 ELSE CheckCardinality(o3)

Validate ==
    /\ pc = "validate"
    /\ this' = Checked(this)
    /\ pc' = "done"
    /\ UNCHANGED <<default_lang, argv, optind, lang_option_found, branch, cerr, exit_status>>

Next ==
    \/ LangOption
    \/ TaskOption
    \/ ValueOption
    \/ SwitchOption
    \/ HelpOption
    \/ InvalidOption
    \/ NoMoreOptions
    \/ Positional
    \/ Validate

Spec == Init /\ [][Next]_vars

(* ------------------------- outcomes of a run --------------------------- *)

\* The constructor has returned.
Returned == pc = "done"

\* The constructor has returned a valid configuration.
Valid == Returned /\ this.error_message_ = <<>>

\* The constructor has returned with exactly this diagnostic.
FailedWith(text) == Returned /\ this.error_message_ = <<text>>

\* The run is over: the constructor returned, exit(0) was called, or an
\* exception left the constructor.
Over == pc \in {"done", "exited", "terminated"}

Flag(c) == Opt(c, EmptyStr)

AllAidl(files) == \A i \in 1..Len(files) : EndsWith(files[i], AidlExt)

(* -------------------------------- C1 ----------------------------------- *)

\* C1: with default language JAVA, `--dumpapi sigs.txt A.aidl B.aidl` ends
\* without error with task = DUMPAPI, output_file = sigs.txt and
\* input_files = [A.aidl, B.aidl], and `--dumpapi sigs.txt` ends with the
\* missing-positional error.
C1_DumpapiForm ==
    (Returned /\ default_lang = "JAVA" /\ OptionsOf(argv) = <<Flag("u")>>) =>
        /\ OperandsOf(argv) = <<sigs_txt, A_aidl, B_aidl>> =>
               /\ this.error_message_ = <<>>
               /\ this.task_ = "DUMPAPI"
               /\ this.output_file_ = sigs_txt
               /\ this.input_files_ = <<A_aidl, B_aidl>>
        /\ OperandsOf(argv) = <<sigs_txt>> => FailedWith("Insufficient arguments")

(* -------------------------------- C2 ----------------------------------- *)

HasFlag(av, c) == \E i \in 1..Len(av) : av[i].c = c

FirstFlag(av, c) == CHOOSE i \in 1..Len(av) : av[i].c = c /\ \A j \in 1..(i - 1) : av[j].c # c

\* The flag at position j of the vector is one the scan fails on: a token
\* getopt_long does not recognise, a --lang value other than java and cpp, or
\* a --lang met while language is CPP (by default or by an earlier --lang=cpp).
FlagFails(av, lang, j) ==
    \/ av[j].c = "?"
    \/ /\ av[j].c = "l"
       /\ \/ Trim(av[j].text) \notin {lang_java, lang_cpp}
          \/ lang = "CPP"
          \/ \E i \in 1..(j - 1) : av[i].c = "l" /\ Trim(av[i].text) = lang_cpp

FailsBefore(av, lang, k) == \E j \in 1..(k - 1) : FlagFails(av, lang, j)

UsageShown == pc = "exited" /\ exit_status = 0 /\ cerr # <<>>

\* C2 as stated: every vector that contains --help ends with the usage text
\* rendered and the process terminated with success status.
C2_HelpAlways == (Over /\ HasFlag(argv, "e")) => UsageShown

\* C2 as amended: a vector that contains --help ends with the usage text and
\* exit status 0 when no flag before the first --help fails, and with the
\* failing flag's error otherwise.
C2_HelpReached ==
    (Over /\ HasFlag(argv, "e")) =>
        IF FailsBefore(argv, default_lang, FirstFlag(argv, "e"))
        THEN Returned /\ Len(this.error_message_) = 1 /\ cerr = <<>> /\ exit_status = -1
        ELSE UsageShown

C2_Witness ==
    /\ UsageShown
    /\ Len(argv) = 3
    /\ argv[1].c = "l"
    /\ argv[2].c = "e"
    /\ argv[3].c = "?"

(* -------------------------------- C3 ----------------------------------- *)

EarlierChecksPass(o) ==
    /\ AllAidl(o.input_files_)
    /\ o.output_dir_ # EmptyStr
    /\ o.language_ = "CPP" => o.output_header_dir_ # EmptyStr
    /\ o.language_ = "JAVA" => o.output_header_dir_ = EmptyStr

SingleOutputForMany ==
    /\ Returned
    /\ this.task_ = "COMPILE"
    /\ Len(this.input_files_) > 1
    /\ (this.dependency_file_ # EmptyStr \/ this.output_file_ # EmptyStr)

\* C5 as stated: a configuration with task COMPILE, more than one input file
\* and a dependency_file or an output_file always ends with a
\* conflicting-output-cardinality error.
C5_AlwaysCardinalityError ==
    SingleOutputForMany =>
        this.error_message_ \in {<<OutputFileConflict>>, <<DepFileConflict>>}

\* C5 as amended: a configuration with task COMPILE, more than one input file
\* and a dependency_file or an output_file is never returned as valid; the
\* error is the cardinality one when the earlier checks pass, and
\* `--lang=java -o outdir -d dep.d A.aidl B.aidl` fails with the
\* dependency-file one.
C5_NoSingleOutputForMany ==
    /\ ( /\ Returned
         /\ this.task_ = "COMPILE"
         /\ Len(this.input_files_) > 1
         /\ (this.dependency_file_ # EmptyStr \/ this.output_file_ # EmptyStr) ) =>
           /\ this.error_message_ # <<>>
           /\ EarlierChecksPass(this) =>
                  this.error_message_ \in {<<OutputFileConflict>>, <<DepFileConflict>>}
    /\ ( /\ Returned
         /\ OptionsOf(argv) = <<Opt("l", lang_java), Opt("o", outdir),
                                Opt("d", <<" ">> \o dep_d \o <<" ">>)>>
         /\ OperandsOf(argv) = <<A_aidl, B_aidl>> ) =>
           FailedWith(DepFileConflict)

C5_Witness ==
    /\ FailedWith(DepFileConflict)
    /\ this.dependency_file_ = dep_d
    /\ this.input_files_ = <<A_aidl, B_aidl>>

(* -------------------------------- C6 ----------------------------------- *)

\* C6 as stated: with default language CPP, every vector that contains --lang
\* ends in failure with the language error, and language stays CPP.
C6_CppRejectsLang ==
    (Over /\ default_lang = "CPP" /\ HasFlag(argv, "l")) =>
        FailedWith(LangNotSupported) /\ this.language_ = "CPP"

\* C6 as amended: with default language CPP, language stays CPP, and a vector
\* that contains --lang with no --help and no unrecognised flag before the
\* first --lang ends in failure with the language error, whatever the value.
C6_CppRejectsReachedLang ==
    (Over /\ default_lang = "CPP" /\ HasFlag(argv, "l")) =>
        /\ this.language_ = "CPP"
        /\ (\A j \in 1..(FirstFlag(argv, "l") - 1) : argv[j].c \notin {"e", "?"}) =>
               FailedWith(LangNotSupported)

C6_Witness ==
    /\ default_lang = "CPP"
    /\ FailedWith(LangNotSupported)
    /\ Len(argv) = 3
    /\ argv[1].c = "o"
    /\ argv[2] = Opt("l", lang_java)

(* -------------------------------- C7 ----------------------------------- *)

\* No flag of the vector selects a language, asks for help or is unrecognised.
PlainFlags(av) == \A i \in 1..Len(av) : av[i].c \notin {"l", "e", "?"}

\* C7: with default language JAVA, no --lang and the single positional token
\* A.aidl, construction ends without error with input_files = [A.aidl] and
\* output_file = A.java.
C7_LegacyJavaForm ==
    ( /\ Returned
      /\ default_lang = "JAVA"
      /\ PlainFlags(argv)
      /\ OperandsOf(argv) = <<A_aidl>> ) =>
        /\ this.error_message_ = <<>>
        /\ this.input_files_ = <<A_aidl>>
        /\ this.output_file_ = A_java

(* -------------------------------- C8 ----------------------------------- *)

\* C8: with default language CPP, no --lang and the positional tokens
\* `A.aidl H s.txt`, construction ends without error with
\* input_files = [A.aidl], output_header_dir = H and output_file = s.txt; with
\* fewer than two tokens after the input it fails with 'No HEADER_DIR or
\* OUTPUT'.
C8_LegacyCppForm ==
    ( /\ Returned
      /\ default_lang = "CPP"
      /\ PlainFlags(argv)
      /\ OperandsOf(argv) # <<>>
      /\ Head(OperandsOf(argv)) = A_aidl ) =>
        /\ OperandsOf(argv) = <<A_aidl, HeaderDir, sigs_txt>> =>
               /\ this.error_message_ = <<>>
               /\ this.input_files_ = <<A_aidl>>
               /\ this.output_header_dir_ = HeaderDir
               /\ this.output_file_ = sigs_txt
        /\ Len(OperandsOf(argv)) < 3 => FailedWith("No HEADER_DIR or OUTPUT.")

(* -------------------------------- C9 ----------------------------------- *)

ModernJavaFlags == <<Opt("l", lang_java), Opt("o", outdir)>>

DepFlag == Opt("d", <<" ">> \o dep_d \o <<" ">>)

\* The vector v with the token tok inserted after its first k tokens.
Inserted(v, tok, k) == SubSeq(v, 1, k) \o <<tok>> \o SubSeq(v, k + 1, Len(v))

\* C9: with default language JAVA, `--lang=java -o outdir` followed by n >= 1
\* tokens ending in ".aidl" ends without error with task = COMPILE,
\* language = JAVA, output_dir = outdir, output_file empty and input_files the
\* tokens in their order; with -d added, it fails exactly when n >= 2.
C9_ModernCompileForm ==
    ( /\ Returned
      /\ default_lang = "JAVA"
      /\ OperandsOf(argv) # <<>>
      /\ AllAidl(OperandsOf(argv)) ) =>
        /\ OptionsOf(argv) = ModernJavaFlags =>
               /\ this.error_message_ = <<>>
               /\ this.task_ = "COMPILE"
               /\ this.language_ = "JAVA"
               /\ this.output_dir_ = outdir
               /\ this.output_file_ = EmptyStr
               /\ this.input_files_ = OperandsOf(argv)
        /\ (\E k \in 0..2 : OptionsOf(argv) = Inserted(ModernJavaFlags, DepFlag, k)) =>
               /\ this.error_message_ # <<>> <=> Len(OperandsOf(argv)) >= 2
               /\ this.error_message_ # <<>> => FailedWith(DepFileConflict)
               /\ this.input_files_ = OperandsOf(argv)

C9_Witness ==
    /\ Valid
    /\ OptionsOf(argv) = ModernJavaFlags
    /\ OperandsOf(argv) = <<B_aidl, A_aidl>>
    /\ this.input_files_ = <<B_aidl, A_aidl>>

(* -------------------------------- C10 ---------------------------------- *)

\* The scan is about to apply --preprocess or --dumpapi.
AtTaskFlag == pc = "scan" /\ optind <= Len(argv) /\ argv[optind].c \in {"s", "u"}

TaskOf(c) == IF c = "s" THEN "PREPROCESS" ELSE "DUMPAPI"

\* C10: applying --preprocess (--dumpapi) sets task to PREPROCESS (DUMPAPI)
\* exactly when task is not UNSPECIFIED at that moment, and changes no other
\* field; when task is UNSPECIFIED the flag changes no field at all.
C10_TaskFlagGuard ==
    [][ AtTaskFlag =>
          /\ lang_option_found' = lang_option_found
          /\ IF this.task_ = "UNSPECIFIED"
             THEN this' = this
             ELSE /\ this'.task_ = TaskOf(argv[optind].c)
                  /\ [this' EXCEPT !.task_ = this.task_] = this ]_vars

C10_Witness ==
    /\ pc = "scan"
    /\ optind = 4
    /\ argv[1].c = "s"
    /\ argv[2].c = "l"
    /\ argv[3].c = "u"
    /\ this.task_ = "DUMPAPI"

(* -------------------------------- C11 ---------------------------------- *)

\* The scan has ended without error and the positional branch is chosen next.
ScanComplete == pc = "positional"

\* C11: when the scan has ended without error, the legacy branch is taken
\* exactly when no --lang was observed and task = COMPILE, the modern branch in
\* every other case, and the legacy branch is entered only with task = COMPILE
\* and language equal to the caller-supplied default.
C11_BranchRule ==
    [][ ScanComplete =>
          /\ branch' \in {"legacy", "modern"}
          /\ branch' = "legacy" <=> (~lang_option_found /\ this.task_ = "COMPILE")
          /\ branch' = "legacy" =>
                 this.task_ = "COMPILE" /\ this.language_ = default_lang ]_vars

C11_Witness ==
    /\ Valid
    /\ branch = "modern"
    /\ ~lang_option_found
    /\ this.task_ = "UNSPECIFIED"
    /\ this.input_files_ # <<>>

(* -------------------------------- C12 ---------------------------------- *)

\* What each cross-field check forbids, in the order of the claim.
Violates(o, k) ==
    CASE k = 1 -> ~AllAidl(o.input_files_)
      [] k = 2 -> /\ o.language_ = "CPP" /\ o.task_ = "COMPILE"
                  /\ (o.output_dir_ = EmptyStr \/ o.output_header_dir_ = EmptyStr)
      [] k = 3 -> /\ o.language_ = "JAVA" /\ o.task_ = "COMPILE"
                  /\ (o.output_dir_ = EmptyStr \/ o.output_header_dir_ # EmptyStr)
      [] k = 4 -> o.task_ = "COMPILE" /\ o.output_file_ # EmptyStr /\ Len(o.input_files_) > 1
      [] k = 5 -> o.task_ = "COMPILE" /\ o.dependency_file_ # EmptyStr /\ Len(o.input_files_) > 1

\* The diagnostics of each check.
Diagnostics(k) ==
    CASE k = 1 -> {"Expected .aidl file for input"}
      [] k = 2 -> {"Output directory is not set. Set with --out.",
                   "Header output directory is not set. Set with --header_out."}
      [] k = 3 -> {"Output directory is not set. Set with --out.",
                   "Header output directory is set, which does not make sense for Java."}
      [] k = 4 -> {OutputFileConflict}
      [] k = 5 -> {DepFileConflict}

ViolatedChecks(o) == { k \in 1..5 : Violates(o, k) }

FirstViolated(o) == CHOOSE k \in ViolatedChecks(o) : \A j \in ViolatedChecks(o) : k <= j

\* The error buffer err is what the checks report for the configuration o:
\* nothing when no check is violated, else one diagnostic of the first
\* violated check.
ReportsFirstViolated(o, err) ==
    IF ViolatedChecks(o) = {}
    THEN err = <<>>
    ELSE Len(err) = 1 /\ err[1] \in Diagnostics(FirstViolated(o))

\* C12: the checks report the error of the first violated check in the order
\* extension, CPP directories, Java directories, output_file against several
\* inputs, dependency_file against several inputs.  The positional stage hands
\* over no COMPILE configuration with an output_file, so the order of the last
\* two checks is also examined on the configuration with an output_file added.
C12_FirstViolatedCheckReported ==
    /\ [][ pc = "validate" => ReportsFirstViolated(this, this'.error_message_) ]_vars
    /\ [](pc = "validate" =>
            LET o == [this EXCEPT !.output_file_ = sigs_txt]
            IN  ReportsFirstViolated(o, Checked(o).error_message_))

C12_Witness ==
    /\ FailedWith("Expected .aidl file for input")
    /\ this.task_ = "COMPILE"
    /\ this.output_dir_ = EmptyStr
    /\ this.dependency_file_ # EmptyStr
    /\ Len(this.input_files_) = 2

(* -------------------------------- C13 ---------------------------------- *)

\* C13: once error text has been written nothing more happens: no flag is
\* applied, no positional token is consumed, no check is made and no field
\* changes, and the error buffer holds exactly one diagnostic.
C13_FirstErrorIsLast ==
    /\ [](Len(this.error_message_) <= 1)
    /\ [][ Failed(this) =>
             /\ this' = this
             /\ optind' = optind
             /\ pc' = pc
             /\ lang_option_found' = lang_option_found
             /\ branch' = branch ]_vars
    /\ [](Failed(this) => Returned)

C13_Witness ==
    /\ FailedWith("Invalid argument")
    /\ Len(argv) = 3
    /\ optind = 2
    /\ argv[2].c = "?"
    /\ argv[3].c = "o"
    /\ this.output_dir_ = EmptyStr

(* -------------------------------- C14 ---------------------------------- *)

\* C14: language starts at the caller-supplied default and its value changes
\* at most once: once it differs from the default, no later flag changes it.
C14_LanguageChangesOnce ==
    /\ [](pc = "scan" /\ optind = 1 => this.language_ = default_lang)
    /\ [][ this.language_ # default_lang => this'.language_ = this.language_ ]_vars

C14_Witness ==
    /\ default_lang = "JAVA"
    /\ this.language_ = "CPP"
    /\ Len(argv) = 3
    /\ argv[1] = Opt("l", lang_java)
    /\ Trim(argv[2].text) = lang_cpp
    /\ argv[3] = Opt("l", lang_java)
    /\ FailedWith(LangNotSupported)

(* -------------------------------- C15 ---------------------------------- *)

\* The positional stage has run on the modern branch.
ModernDone == branch = "modern" /\ pc \in {"validate", "done"}

\* C15: on the modern branch with a task other than COMPILE, fewer than two
\* positional tokens end construction with 'Insufficient arguments' and leave
\* output_file and input_files empty; with two or more, the first is
\* output_file and the others are input_files in their order.
C15_ModernOtherTasks ==
    (ModernDone /\ this.task_ # "COMPILE") =>
        LET tokens == OperandsOf(argv) IN
        IF Len(tokens) < 2
        THEN /\ FailedWith("Insufficient arguments")
             /\ this.output_file_ = EmptyStr
             /\ this.input_files_ = <<>>
        ELSE /\ this.output_file_ = Head(tokens)
             /\ this.input_files_ = Tail(tokens)
             /\ pc = "validate" => this.error_message_ = <<>>

C15_Witness ==
    /\ ModernDone
    /\ this.task_ = "PREPROCESS"
    /\ OperandsOf(argv) = <<sigs_txt, B_aidl, A_aidl>>
    /\ this.input_files_ = <<B_aidl, A_aidl>>
    /\ Valid

(* -------------------------------- C16 ---------------------------------- *)

\* C16: task is other than UNSPECIFIED only after a --lang has been observed,
\* task leaves UNSPECIFIED only by a --lang that sets COMPILE, and the scan
\* never ends with no --lang observed and task = COMPILE.
C16_TaskNeedsLang ==
    /\ [](this.task_ # "UNSPECIFIED" => lang_option_found)
    /\ [][ (this.task_ = "UNSPECIFIED" /\ this'.task_ # "UNSPECIFIED") =>
             /\ pc = "scan" /\ argv[optind].c = "l"
             /\ this'.task_ = "COMPILE"
             /\ lang_option_found' ]_vars
    /\ [](ScanComplete => ~(~lang_option_found /\ this.task_ = "COMPILE"))
    /\ [](branch # "legacy")

C16_Witness ==
    /\ ScanComplete
    /\ ~lang_option_found
    /\ this.task_ = "UNSPECIFIED"
    /\ HasFlag(argv, "s")
    /\ HasFlag(argv, "u")

(* -------------------------------- C17 ---------------------------------- *)

TaskFlags(av) == { i \in 1..Len(av) : av[i].c \in {"l", "s", "u"} }

LastTaskFlag(av) == CHOOSE i \in TaskFlags(av) : \A j \in TaskFlags(av) : j <= i

\* The task the claim gives to a vector scanned without error.
TaskByLastFlag(av) ==
    IF ~HasFlag(av, "l") THEN "UNSPECIFIED"
    ELSE CASE av[LastTaskFlag(av)].c = "l" -> "COMPILE"
           [] av[LastTaskFlag(av)].c = "s" -> "PREPROCESS"
           [] av[LastTaskFlag(av)].c = "u" -> "DUMPAPI"

\* C17: when the scan ends without error, task is UNSPECIFIED if the vector
\* has no --lang, and otherwise what the last of its --lang, --preprocess and
\* --dumpapi flags sets.
C17_TaskByLastFlag == ScanComplete => this.task_ = TaskByLastFlag(OptionsOf(argv))

C17_Witness ==
    /\ ScanComplete
    /\ Len(OptionsOf(argv)) = 3
    /\ argv[1].c = "s"
    /\ argv[2].c = "l"
    /\ argv[3].c = "u"
    /\ this.task_ = "DUMPAPI"

(* -------------------------------- C18 ---------------------------------- *)

\* The flag at position i is a --lang=cpp that the scan applies with success
\* when the default language is JAVA: no flag before it fails, asks for help
\* or sets CPP.
CppApplied(av, i) ==
    /\ av[i].c = "l"
    /\ Trim(av[i].text) = lang_cpp
    /\ \A j \in 1..(i - 1) : av[j].c # "e" /\ ~FlagFails(av, "JAVA", j)

\* The scan goes on after this flag unless another test stops it.
KeepsScanning(tok) == tok.c \notin {"e", "?"}

LaterLang(av, i) == { j \in (i + 1)..Len(av) : av[j].c = "l" }

\* C18 as stated: with default language JAVA, a vector with a --lang after a
\* --lang=cpp that was applied with success ends with the language error.
C18_LangAfterCpp ==
    ( /\ Over
      /\ default_lang = "JAVA"
      /\ \E i \in 1..Len(argv) : CppApplied(argv, i) /\ LaterLang(argv, i) # {} ) =>
        FailedWith(LangNotSupported)

\* C18 as amended: the same, when no --help and no unrecognised flag stands
\* between the --lang=cpp and the first --lang after it.
C18_ReachedLangAfterCpp ==
    \A i \in 1..Len(argv) :
        ( /\ Over
          /\ default_lang = "JAVA"
          /\ CppApplied(argv, i)
          /\ LaterLang(argv, i) # {}
          /\ \A j \in (i + 1)..Len(argv) :
                 (\A k \in LaterLang(argv, i) : j < k) => KeepsScanning(argv[j]) ) =>
            FailedWith(LangNotSupported) /\ this.language_ = "CPP"

C18_Witness ==
    /\ default_lang = "JAVA"
    /\ FailedWith(LangNotSupported)
    /\ Len(argv) = 3
    /\ CppApplied(argv, 1)
    /\ argv[2].c = "o"
    /\ Trim(argv[3].text) = lang_cpp

====
